---- MODULE Spec2Model ----
(***************************************************************************)
(* Model of backend/scraper.py: one run of the command-line recipe         *)
(* scraper.  main() checks the argument count, scrape_recipe(url) builds   *)
(* the cloudscraper session, fetches the page, checks the status, hands    *)
(* the markup to scrape_html and reads the accessors of the handle; main   *)
(* prints the mapping as one JSON line.                                    *)
(*                                                                         *)
(* cloudscraper and recipe_scrapers are opaque: every call into them       *)
(* either returns or raises, the choice being made by \E at the call.      *)
(* A raised exception carries its class, because the source handles        *)
(* `except:` (line 58 ...) and `except Exception` (line 101) differently.  *)
(***************************************************************************)
EXTENDS Integers, Sequences, FiniteSets, TLC

VARIABLES
    sys_argv,    \* sys.argv: program name followed by the arguments
    pc,          \* position of the single thread of control
    url,         \* main's / scrape_recipe's local `url`
    response,    \* scrape_recipe's local `response`
    scraper,     \* scrape_recipe's local `scraper` (the library handle)
    idx,         \* next entry of the dict display / next guarded block
    data,        \* scrape_recipe's local `data`
    result,      \* main's local `result`
    stdout,      \* lines written to standard output
    exitStatus,  \* <<>> while running, <<status>> once the process ended
    calls        \* history of the calls made into the two libraries

vars == <<sys_argv, pc, url, response, scraper, idx, data, result, stdout,
          exitStatus, calls>>

---------------------------------------------------------------------------
(* Bounds of the model *)

\* largest number of command-line arguments after the program name
MaxArgs == 2

\* the URLs a run may be given
Urls == {"https://a.example/r1", "https://b.example/r2"}

\* the page bodies the server may answer with
Pages == {"<html>A</html>", "<html>B</html>"}

\* the final status codes a GET may end with
StatusCodes == {200, 403, 500}

\* the accessors called inside their own try block (lines 56-97)
GuardedAccessors ==
    {"total_time", "prep_time", "cook_time", "category", "cuisine", "ratings",
     "ratings_count", "nutrients"}

---------------------------------------------------------------------------
(* Python values *)

\* Python's None as stored in the mapping (json null)
None == "None"

\* local not yet bound
Unbound == <<>>

\* classes that `except Exception` matches
ExceptionSubclasses == {"Exception", "RuntimeError", "HTTPError"}

\* the exception objects call `fn` may raise: one of each class, and an
\* exception built without arguments.  The guarded blocks (lines 56-97)
\* discard the exception object, so one exception per class is enough there
Exceptions(fn) ==
    { [cls |-> "RuntimeError",      args |-> <<fn \o " failed">>],
      [cls |-> "KeyboardInterrupt", args |-> <<>>] }
    \cup (IF fn \in GuardedAccessors THEN {}
          ELSE {[cls |-> "RuntimeError", args |-> <<>>]})

\* str(e) of a BaseException: '' without arguments, the argument when one
Str(e) == IF Len(e.args) = 0 THEN "" ELSE e.args[1]

\* {k: v} update of a dict
DictSet(d, k, v) == [x \in (DOMAIN d) \cup {k} |-> IF x = k THEN v ELSE d[x]]

\* json.dumps(obj, ensure_ascii=...): one line of text holding the object
JsonDumps(obj, ensure_ascii) == [json |-> obj, ensure_ascii |-> ensure_ascii]

---------------------------------------------------------------------------
(* main: argument check *)

ArgCountLoose(argv) == Len(argv) >= 2

\* line 109: `len(sys.argv) != 2` is the usage error
ArgCountOk(argv) == Len(argv) = 2

\* line 110: the usage error object
UsageError == [error |-> "Usage: python scraper.py <url>"]

---------------------------------------------------------------------------
(* scrape_recipe: the fields *)

\* lines 40-53: the dict display, in evaluation order; accessor "" marks
\* the one entry that is not a call (`'sourceUrl': url`)
MandatoryFields ==
    << [key |-> "name",          accessor |-> "title"],
       [key |-> "description",   accessor |-> "description"],
       [key |-> "ingredients",   accessor |-> "ingredients"],
       [key |-> "instructions",  accessor |-> "instructions"],
       [key |-> "image",         accessor |-> "image"],
       [key |-> "sourceUrl",     accessor |-> ""],
       [key |-> "author",        accessor |-> "author"],
       [key |-> "host",          accessor |-> "host"],
       [key |-> "canonical_url", accessor |-> "canonical_url"],
       [key |-> "language",      accessor |-> "language"],
       [key |-> "site_name",     accessor |-> "site_name"],
       [key |-> "yields",        accessor |-> "yields"] >>

\* lines 55-97: the guarded blocks, in program order
OptionalFields ==
    << [key |-> "totalTimeMinutes", accessor |-> "total_time"],
       [key |-> "prepTimeMinutes",  accessor |-> "prep_time"],
       [key |-> "cookTimeMinutes",  accessor |-> "cook_time"],
       [key |-> "category",         accessor |-> "category"],
       [key |-> "cuisine",          accessor |-> "cuisine"],
       [key |-> "ratings",          accessor |-> "ratings"],
       [key |-> "ratings_count",    accessor |-> "ratings_count"],
       [key |-> "nutrients",        accessor |-> "nutrients"] >>

\* what accessor `acc` of the handle returns when it returns: a function
\* of the markup and URL the handle was built from
AccessorValue(acc, h) ==
    IF acc = "canonical_url"
    THEN (IF h.html = "<html>A</html>" THEN h.url
                                      ELSE "https://canonical.example/recipe")
    ELSE acc \o " of " \o h.html

SourceUrlFromHandle(u, h) == AccessorValue("canonical_url", h)

\* line 46: 'sourceUrl': url
SourceUrlValue(u, h) == u

---------------------------------------------------------------------------
(* scrape_recipe: error handling *)

RaiseForStatusNever(status_code) == FALSE

\* line 34: response.raise_for_status() raises HTTPError for 4xx and 5xx
RaiseForStatusRaises(status_code) == 400 <= status_code /\ status_code < 600

\* the HTTPError raise_for_status builds
HTTPError(status_code, u) ==
    [cls  |-> "HTTPError",
     args |-> << (CASE status_code = 403 -> "403 Client Error: Forbidden"
                    [] status_code = 500 -> "500 Server Error: Internal Server Error"
                    [] status_code < 500 -> "4xx Client Error"
                    [] OTHER             -> "5xx Server Error")
                 \o " for url: " \o u >>]

OptionalPass(d, k) == d

\* lines 59, 64, 69, 75, 80, 86, 91, 97: data[key] = None
OptionalDefault(d, k) == DictSet(d, k, None)

OptionalCatchesException(e) == e.cls \in ExceptionSubclasses

OptionalCatchesNothing(e) == FALSE

\* lines 58, 63, 68, 74, 79, 85, 90, 96: bare `except:` matches everything
OptionalCatches(e) == TRUE

OuterCatchesNothing(e) == FALSE

\* line 101: `except Exception as e`
OuterCatches(e) == e.cls \in ExceptionSubclasses

ErrorMappingClassName(e, u) == [error |-> e.cls, url |-> u]

\* lines 102-105: the error mapping
ErrorMapping(e, u) == [error |-> Str(e), url |-> u]

ExitStatusFromPayload(r) == IF "error" \in DOMAIN r THEN 1 ELSE 0

\* lines 113-118: main returns after the print, the interpreter exits 0
ExitStatusAfterPrint(r) == 0

\* entry of the call history: the function called, how it ended, the class
\* raised ("" when it returned) and the value returned or e.args
Call(fn, out, cls, args) == [fn |-> fn, out |-> out, cls |-> cls, args |-> args]

\* exception e raised by call fn inside the outer try (lines 22-105): caught
\* at line 101 when it matches, else it leaves scrape_recipe and main and
\* the interpreter ends the process without printing to stdout
Raise(fn, e) ==
    /\ calls' = Append(calls, Call(fn, "raise", e.cls, e.args))
    /\ IF OuterCatches(e)
       THEN /\ result' = ErrorMapping(e, url)
            /\ pc' = "print"
            /\ UNCHANGED <<stdout, exitStatus>>
       ELSE /\ pc' = "done"
            /\ exitStatus' = <<130>>
            /\ UNCHANGED <<result, stdout>>

---------------------------------------------------------------------------
(* The run *)

Init ==
    /\ sys_argv \in { <<"scraper.py">> \o a :
                        a \in UNION { [1..n -> Urls] : n \in 0..MaxArgs } }
    /\ pc = "main"
    /\ url = Unbound
    /\ response = Unbound
    /\ scraper = Unbound
    /\ idx = 1
    /\ data = Unbound
    /\ result = Unbound
    /\ stdout = <<>>
    /\ exitStatus = <<>>
    /\ calls = <<>>

\* lines 109-111: wrong argument count
MainUsage ==
    /\ pc = "main"
    /\ ~ArgCountOk(sys_argv)
    /\ stdout' = Append(stdout, JsonDumps(UsageError, TRUE))
    /\ exitStatus' = <<1>>
    /\ pc' = "done"
    /\ UNCHANGED <<sys_argv, url, response, scraper, idx, data, result, calls>>

\* lines 113-114: url = sys.argv[1]; enter scrape_recipe
MainScrape ==
    /\ pc = "main"
    /\ ArgCountOk(sys_argv)
    /\ url' = sys_argv[2]
    /\ pc' = "create_scraper"
    /\ UNCHANGED <<sys_argv, response, scraper, idx, data, result, stdout,
                   exitStatus, calls>>

\* lines 24-30: cloudscraper.create_scraper(browser=...)
CreateScraper ==
    /\ pc = "create_scraper"
    /\ \/ /\ calls' = Append(calls, Call("create_scraper", "ok", "", <<>>))
          /\ pc' = "get"
          /\ UNCHANGED <<result, stdout, exitStatus>>
       \/ \E e \in Exceptions("create_scraper") : Raise("create_scraper", e)
    /\ UNCHANGED <<sys_argv, url, response, scraper, idx, data>>

\* line 33: scraper_session.get(url, timeout=15)
Get ==
    /\ pc = "get"
    /\ \/ \E st \in StatusCodes, page \in Pages :
            /\ response' = [status_code |-> st, text |-> page]
            /\ calls' = Append(calls, Call("get", "ok", "", <<page>>))
            /\ pc' = "raise_for_status"
            /\ UNCHANGED <<result, stdout, exitStatus>>
       \/ /\ \E e \in Exceptions("get") : Raise("get", e)
          /\ UNCHANGED response
    /\ UNCHANGED <<sys_argv, url, scraper, idx, data>>

\* line 34: response.raise_for_status()
RaiseForStatus ==
    /\ pc = "raise_for_status"
    /\ IF RaiseForStatusRaises(response.status_code)
       THEN Raise("raise_for_status", HTTPError(response.status_code, url))
       ELSE /\ calls' = Append(calls, Call("raise_for_status", "ok", "", <<>>))
            /\ pc' = "scrape_html"
            /\ UNCHANGED <<result, stdout, exitStatus>>
    /\ UNCHANGED <<sys_argv, url, response, scraper, idx, data>>

\* line 37: scrape_html(response.text, url, supported_only=False)
ScrapeHtml ==
    /\ pc = "scrape_html"
    /\ \/ /\ scraper' = [html |-> response.text, url |-> url]
          /\ calls' = Append(calls, Call("scrape_html", "ok", "", <<response.text>>))
          /\ pc' = "mandatory"
          /\ idx' = 1
          /\ data' = Unbound
          /\ UNCHANGED <<result, stdout, exitStatus>>
       \/ /\ \E e \in Exceptions("scrape_html") : Raise("scrape_html", e)
          /\ UNCHANGED <<scraper, idx, data>>
    /\ UNCHANGED <<sys_argv, url, response>>

\* pc and idx after entry idx of the dict display
AfterMandatory ==
    IF idx = Len(MandatoryFields)
    THEN pc' = "optional" /\ idx' = 1
    ELSE pc' = "mandatory" /\ idx' = idx + 1

\* lines 40-53: one entry of the dict display; a raise is not guarded here
Mandatory ==
    /\ pc = "mandatory"
    /\ LET f == MandatoryFields[idx] IN
       IF f.accessor = ""
       THEN /\ data' = DictSet(data, f.key, SourceUrlValue(url, scraper))
            /\ AfterMandatory
            /\ UNCHANGED <<result, stdout, exitStatus, calls>>
       ELSE \/ /\ data' = DictSet(data, f.key, AccessorValue(f.accessor, scraper))
               /\ calls' = Append(calls, Call(f.accessor, "ok", "",
                                         <<AccessorValue(f.accessor, scraper)>>))
               /\ AfterMandatory
               /\ UNCHANGED <<result, stdout, exitStatus>>
            \/ /\ \E e \in Exceptions(f.accessor) : Raise(f.accessor, e)
               /\ UNCHANGED <<idx, data>>
    /\ UNCHANGED <<sys_argv, url, response, scraper>>

\* pc and idx after guarded block idx
AfterOptional ==
    IF idx = Len(OptionalFields)
    THEN pc' = "return" /\ idx' = idx
    ELSE pc' = "optional" /\ idx' = idx + 1

\* lines 56-97: one guarded block: the value, or None when the call raises
Optional ==
    /\ pc = "optional"
    /\ LET f == OptionalFields[idx] IN
       \/ /\ data' = DictSet(data, f.key, AccessorValue(f.accessor, scraper))
          /\ calls' = Append(calls, Call(f.accessor, "ok", "",
                                    <<AccessorValue(f.accessor, scraper)>>))
          /\ AfterOptional
          /\ UNCHANGED <<result, stdout, exitStatus>>
       \/ \E e \in Exceptions(f.accessor) :
            IF OptionalCatches(e)
            THEN /\ data' = OptionalDefault(data, f.key)
                 /\ calls' = Append(calls, Call(f.accessor, "raise", e.cls, e.args))
                 /\ AfterOptional
                 /\ UNCHANGED <<result, stdout, exitStatus>>
            ELSE /\ Raise(f.accessor, e)
                 /\ UNCHANGED <<idx, data>>
    /\ UNCHANGED <<sys_argv, url, response, scraper>>

\* line 99: return data
Return ==
    /\ pc = "return"
    /\ result' = data
    /\ pc' = "print"
    /\ UNCHANGED <<sys_argv, url, response, scraper, idx, data, stdout,
                   exitStatus, calls>>

\* line 115: print(json.dumps(result, ensure_ascii=False)); main returns
PrintResult ==
    /\ pc = "print"
    /\ stdout' = Append(stdout, JsonDumps(result, FALSE))
    /\ exitStatus' = <<ExitStatusAfterPrint(result)>>
    /\ pc' = "done"
    /\ UNCHANGED <<sys_argv, url, response, scraper, idx, data, result, calls>>

Next ==
    \/ MainUsage
    \/ MainScrape
    \/ CreateScraper
    \/ Get
    \/ RaiseForStatus
    \/ ScrapeHtml
    \/ Mandatory
    \/ Optional
    \/ Return
    \/ PrintResult

Spec == Init /\ [][Next]_vars

\* the run is one thread of control: a step that can be taken is taken
\* (every library call returns or raises; the GET has timeout=15, line 33)
FairSpec == Spec /\ WF_vars(Next)

---------------------------------------------------------------------------
(* Vocabulary of the properties *)

\* the run was given exactly one argument
OneArg == Len(sys_argv) = 2

\* call fn appears in the history
Invoked(fn) == \E k \in 1..Len(calls) : calls[k].fn = fn

\* the history entry of call fn
CallOf(fn) ==
    IF Invoked(fn)
    THEN calls[CHOOSE k \in 1..Len(calls) : calls[k].fn = fn]
    ELSE Call(fn, "none", "", <<>>)

\* how often call fn was made
CountCalls(fn) == Cardinality({k \in 1..Len(calls) : calls[k].fn = fn})

\* the calls whose exceptions only the outer handler can catch
RecordLevelCalls ==
    {"create_scraper", "get", "raise_for_status", "scrape_html",
     "title", "description", "ingredients", "instructions", "image", "author",
     "host", "canonical_url", "language", "site_name", "yields"}

\* the twelve mandatory keys and the optional keys of the result
MandatoryKeys ==
    {"name", "description", "ingredients", "instructions", "image",
     "sourceUrl", "author", "host", "canonical_url", "language", "site_name",
     "yields"}

OptionalKeys ==
    {"totalTimeMinutes", "prepTimeMinutes", "cookTimeMinutes", "category",
     "cuisine", "ratings", "ratings_count", "nutrients"}

\* the order of all calls of a run in which nothing escapes
FullOrder ==
    <<"create_scraper", "get", "raise_for_status", "scrape_html",
      "title", "description", "ingredients", "instructions", "image", "author",
      "host", "canonical_url", "language", "site_name", "yields",
      "total_time", "prep_time", "cook_time", "category", "cuisine", "ratings",
      "ratings_count", "nutrients">>

\* fetch, construction and every mandatory accessor returned
RecordLevelOk == \A fn \in RecordLevelCalls : CallOf(fn).out = "ok"

\* the last call made raised, and only the outer handler could catch it
RecordLevelRaised ==
    /\ Len(calls) > 0
    /\ calls[Len(calls)].out = "raise"
    /\ calls[Len(calls)].fn \in RecordLevelCalls

\* ... and what it raised is an Exception
RecordLevelRaisedException ==
    RecordLevelRaised /\ calls[Len(calls)].cls \in ExceptionSubclasses

\* ... or is no Exception (KeyboardInterrupt, SystemExit, GeneratorExit)
RecordLevelRaisedOther ==
    RecordLevelRaised /\ calls[Len(calls)].cls \notin ExceptionSubclasses

\* the string form of an exception with arguments a
StrOfArgs(a) == IF a = <<>> THEN "" ELSE a[1]

\* scrape_recipe has returned r to main
Returned == pc \in {"print", "done"} /\ DOMAIN result # {}

---------------------------------------------------------------------------
(* C1 *)

\* C1: when the fetch, the construction and every mandatory accessor
\* succeed, scrape_recipe returns a mapping that is not the error mapping,
\* whatever subset of the optional accessors raise (and whatever they
\* raise): the key of each raising accessor is present with None, the key of
\* each other optional accessor holds the value it returned, and every
\* mandatory key holds its extracted value.
C1_OptionalFailureIsolated ==
    (pc \in {"print", "done"} /\ OneArg /\ RecordLevelOk) =>
        /\ DOMAIN result # {}
        /\ "error" \notin DOMAIN result
        /\ \A n \in 1..Len(OptionalFields) :
             LET f == OptionalFields[n]
                 c == CallOf(f.accessor)
             IN  /\ f.key \in DOMAIN result
                 /\ c.out \in {"ok", "raise"}
                 /\ c.out = "raise" => result[f.key] = None
                 /\ c.out = "ok" => result[f.key] = c.args[1]
        /\ \A n \in 1..Len(MandatoryFields) :
             LET f == MandatoryFields[n]
             IN  /\ f.key \in DOMAIN result
                 /\ f.accessor # "" => result[f.key] = CallOf(f.accessor).args[1]

\* a finished run where some optional accessors raised (an Exception and a
\* KeyboardInterrupt) and others returned
C1_Witness ==
    /\ pc = "done"
    /\ RecordLevelOk
    /\ CallOf("total_time").cls = "KeyboardInterrupt"
    /\ CallOf("nutrients").cls = "RuntimeError"
    /\ CallOf("cuisine").out = "ok"
    /\ result["totalTimeMinutes"] = None
    /\ result["nutrients"] = None
    /\ result["cuisine"] = "cuisine of <html>B</html>"
    /\ result["name"] = "title of <html>B</html>"

---------------------------------------------------------------------------
(* C2 *)

\* C2 as stated: whatever the client construction, the fetch, the status
\* check, the HTML-based construction or a mandatory accessor raises, the
\* run ends with scrape_recipe having returned exactly {error: str(e),
\* url: <the argument>}.
C2_AnyRaiseGivesErrorMapping ==
    (pc = "done" /\ OneArg /\ RecordLevelRaised) =>
        /\ DOMAIN result = {"error", "url"}
        /\ result["error"] = StrOfArgs(calls[Len(calls)].args)
        /\ result["url"] = sys_argv[2]

\* C2 amended: when what is raised there is an Exception (an instance of
\* Exception or of a subclass), scrape_recipe returns exactly {error:
\* str(e), url: <the argument>}: no key extracted before the failure is in
\* the result.
C2_ExceptionGivesErrorMapping ==
    (pc \in {"print", "done"} /\ OneArg /\ RecordLevelRaisedException) =>
        /\ DOMAIN result = {"error", "url"}
        /\ result["error"] = StrOfArgs(calls[Len(calls)].args)
        /\ result["url"] = sys_argv[2]

\* the last mandatory accessor raised after ten others had returned
C2_Witness ==
    /\ pc = "done"
    /\ CallOf("yields").out = "raise"
    /\ CallOf("site_name").out = "ok"
    /\ result = [error |-> "yields failed", url |-> sys_argv[2]]

---------------------------------------------------------------------------
(* C3 *)

\* C3 as stated: when every mandatory field is populated the result holds
\* the twelve mandatory keys plus nine optional keys.
C3_TwelvePlusNine ==
    (pc \in {"print", "done"} /\ OneArg /\ RecordLevelOk) =>
        /\ MandatoryKeys \subseteq DOMAIN result
        /\ Cardinality((DOMAIN result) \ MandatoryKeys) = 9

\* C3 amended: when every mandatory field is populated the result holds
\* exactly the twelve mandatory keys plus the eight optional keys
\* (totalTimeMinutes, prepTimeMinutes, cookTimeMinutes, category, cuisine,
\* ratings, ratings_count, nutrients), each optional key holding the
\* extracted value or None.
C3_TwelvePlusEight ==
    (pc \in {"print", "done"} /\ OneArg /\ RecordLevelOk) =>
        /\ DOMAIN result = MandatoryKeys \cup OptionalKeys
        /\ Cardinality(MandatoryKeys) = 12
        /\ Cardinality((DOMAIN result) \ MandatoryKeys) = 8
        /\ \A n \in 1..Len(OptionalFields) :
             result[OptionalFields[n].key]
                \in {None, AccessorValue(OptionalFields[n].accessor, scraper)}

\* a printed success mapping with a None among its optional keys
C3_Witness ==
    /\ pc = "done"
    /\ RecordLevelOk
    /\ Len(stdout) = 1
    /\ DOMAIN stdout[1].json = MandatoryKeys \cup OptionalKeys
    /\ stdout[1].json["ratings"] = None
    /\ stdout[1].json["category"] # None

---------------------------------------------------------------------------
(* C4 *)

\* C4: a run with no argument or with two or more arguments prints the
\* usage error object {"error": "Usage: python scraper.py <url>"} and ends
\* with a non-zero exit status.
C4_UsageError ==
    (pc = "done" /\ Len(sys_argv) # 2) =>
        /\ Len(stdout) = 1
        /\ stdout[1].json = [error |-> "Usage: python scraper.py <url>"]
        /\ Len(exitStatus) = 1
        /\ exitStatus[1] # 0

\* a finished run that was given two arguments
C4_Witness ==
    /\ pc = "done"
    /\ Len(sys_argv) = 3
    /\ exitStatus = <<1>>
    /\ Len(stdout) = 1

---------------------------------------------------------------------------
(* C5 *)

\* C5 as stated: every run with exactly one argument ends with exit
\* status 0.
C5_OneArgExitsZero ==
    (pc = "done" /\ OneArg) => exitStatus = <<0>>

\* where a finished run with one argument stands: it ended through the
\* print with status 0, or an exception that is no Exception left
\* scrape_recipe and main
ExitOfOneArgRun ==
    (pc = "done" /\ OneArg) =>
        /\ ~RecordLevelRaisedOther => exitStatus = <<0>> /\ DOMAIN result # {}
        /\ RecordLevelRaisedOther => DOMAIN result = {} /\ Len(exitStatus) = 1

\* C5 amended: a run with exactly one argument terminates, and with exit
\* status 0 whenever scrape_recipe returns, with the success mapping or with
\* the error mapping, whatever step failed with an Exception; an exception
\* that is no Exception (KeyboardInterrupt, SystemExit) raised by the
\* client construction, the fetch, the HTML-based construction or a
\* mandatory accessor leaves scrape_recipe and the run does not end through
\* the print.
C5_ReturnedExitsZero ==
    /\ []ExitOfOneArgRun
    /\ <>(pc = "done")

\* a run that printed an error mapping and ended with status 0
C5_Witness ==
    /\ pc = "done"
    /\ OneArg
    /\ CallOf("get").out = "raise"
    /\ "error" \in DOMAIN result
    /\ exitStatus = <<0>>

---------------------------------------------------------------------------
(* C6 *)

\* C6 as stated: every finished run has written exactly one line.
C6_AlwaysOneLine ==
    pc = "done" => Len(stdout) = 1

\* C6 amended: no run writes more than one line; a run that ends by the
\* usage error or after scrape_recipe returned (success mapping or error
\* mapping) has written exactly one line, and it holds that mapping; a run
\* in which an exception that is no Exception leaves scrape_recipe ends
\* with no line written.
C6_OneLineUnlessEscaped ==
    /\ Len(stdout) <= 1
    /\ pc # "done" => Len(stdout) = 0
    /\ pc = "done" =>
         IF OneArg /\ RecordLevelRaisedOther
         THEN Len(stdout) = 0
         ELSE /\ Len(stdout) = 1
              /\ stdout[1].json = (IF OneArg THEN result ELSE UsageError)

\* a finished run on the success path, with its one line on stdout
C6_Witness ==
    /\ pc = "done"
    /\ OneArg
    /\ RecordLevelOk
    /\ stdout = <<JsonDumps(data, FALSE)>>
    /\ "nutrients" \in DOMAIN data

---------------------------------------------------------------------------
(* C7 *)

\* C7: once the GET has returned a response whose status is a failure
\* (4xx, 5xx), scrape_html and the accessors are never invoked, and
\* scrape_recipe returns {error, url} whose error is the HTTPError of that
\* status and whose url is the argument.
C7_StatusFailureAborts ==
    (DOMAIN response # {} /\ response.status_code >= 400) =>
        /\ \A k \in 1..Len(calls) :
             calls[k].fn \in {"create_scraper", "get", "raise_for_status"}
        /\ pc \in {"raise_for_status", "print", "done"}
        /\ pc \in {"print", "done"} =>
             /\ DOMAIN result = {"error", "url"}
             /\ result["url"] = sys_argv[2]
             /\ response.status_code = 403 =>
                  result["error"] = "403 Client Error: Forbidden for url: "
                                      \o sys_argv[2]
             /\ response.status_code = 500 =>
                  result["error"] = "500 Server Error: Internal Server Error for url: "
                                      \o sys_argv[2]

\* a finished run whose GET ended with 403
C7_Witness ==
    /\ pc = "done"
    /\ DOMAIN response # {}
    /\ response.status_code = 403
    /\ CallOf("raise_for_status").cls = "HTTPError"
    /\ Len(stdout) = 1
    /\ stdout[1].json["url"] = "https://a.example/r1"

---------------------------------------------------------------------------
(* C8 *)

\* C8 as stated, read for the runs that end through a print (the usage
\* error, the success mapping, the error mapping): such a run with exactly
\* one argument has issued exactly one GET, a run with another argument
\* count none.
C8_ExactlyOneFetch ==
    (pc = "done" /\ Len(stdout) = 1) =>
        CountCalls("get") = (IF OneArg THEN 1 ELSE 0)

\* C8 amended: a run never issues more than one GET; a finished run with
\* exactly one argument has issued exactly one unless the construction of
\* the HTTP client raised, in which case it has issued none; a run with
\* another argument count issues none.
C8_AtMostOneFetch ==
    /\ CountCalls("get") <= 1
    /\ ~OneArg => Len(calls) = 0
    /\ (pc = "done" /\ OneArg) =>
         CountCalls("get") =
            (IF CallOf("create_scraper").out = "raise" THEN 0 ELSE 1)

\* a finished run whose GET timed out or was refused, and was not repeated
C8_Witness ==
    /\ pc = "done"
    /\ OneArg
    /\ CallOf("get").out = "raise"
    /\ CountCalls("get") = 1
    /\ Len(calls) = 2

---------------------------------------------------------------------------
(* C9 *)

\* C9: the URL argument is carried through unchanged: a returned success
\* mapping has sourceUrl equal to the argument, a returned error mapping
\* has url equal to the argument; and sourceUrl is populated without a
\* call, so that the twelve mandatory keys are in place after eleven
\* accessor calls.
C9_UrlCarriedThrough ==
    /\ Returned =>
         IF "error" \in DOMAIN result
         THEN result["url"] = sys_argv[2]
         ELSE result["sourceUrl"] = sys_argv[2]
    /\ (pc = "optional" /\ idx = 1) =>
         /\ DOMAIN data = MandatoryKeys
         /\ data["sourceUrl"] = sys_argv[2]
         /\ Len(calls) = 4 + 11
         /\ \A k \in 1..Len(calls) : calls[k].fn # "sourceUrl"

\* a printed success mapping whose canonical_url is another URL
C9_Witness ==
    /\ pc = "done"
    /\ RecordLevelOk
    /\ result["canonical_url"] = "https://canonical.example/recipe"
    /\ result["sourceUrl"] = "https://b.example/r2"

---------------------------------------------------------------------------
(* C10 *)

\* C10: the calls of a run are made in the fixed order fetch, status check,
\* HTML-based construction, mandatory accessors, optional accessors, each
\* at most once; a raise outside the guarded blocks is the last call of the
\* run; and a run in which every mandatory accessor returned invokes every
\* optional accessor exactly once, whichever of them raise.
C10_CallOrder ==
    /\ Len(calls) <= Len(FullOrder)
    /\ \A k \in 1..Len(calls) : k <= Len(FullOrder) /\ calls[k].fn = FullOrder[k]
    /\ \A k \in 1..Len(calls) :
         (calls[k].out = "raise" /\ calls[k].fn \in RecordLevelCalls)
            => k = Len(calls)
    /\ (pc \in {"return", "print", "done"} /\ OneArg /\ RecordLevelOk) =>
         \A fn \in GuardedAccessors : CountCalls(fn) = 1

\* a finished run whose first optional accessor raised and whose last one
\* was still invoked
C10_Witness ==
    /\ pc = "done"
    /\ CallOf("total_time").out = "raise"
    /\ CallOf("nutrients").out = "ok"
    /\ Len(calls) = Len(FullOrder)

====
